---------------------------- MODULE Spec2Model ----------------------------
(* A model of the chat-completions handler of the OpenAI -> NVIDIA NIM     *)
(* proxy (src/server.js, lines 50-169): request intake, the upstream call, *)
(* the streaming transducer that merges the reasoning channel into the     *)
(* answer channel, the non-streaming reshape and the error handler.        *)
(*                                                                         *)
(* Texts are sequences of tokens.  A token is a run of bytes that the code *)
(* never looks inside (the "data: " prefix, a JSON head, one character of  *)
(* a fragment).  The one multi-byte character of the alphabet is spelled   *)
(* by its two UTF-8 bytes, so that a chunk boundary can fall inside it.    *)
EXTENDS Naturals, Sequences, FiniteSets, TLC

(***************************************************************************)
(* Bounds                                                                  *)
(***************************************************************************)
\* Number of event lines an upstream body holds at most.
MaxLines == 3
\* Number of lines of an upstream body when two requests run concurrently.
MaxConcLines == 2
\* Largest size of a chunk that is not the whole rest of the body.
MaxChunk == 2
\* Frames the client connection buffers before res.write reports saturation
\* (Node's writableHighWaterMark, counted in frames).
HighWaterMark == 2

(***************************************************************************)
(* Tokens                                                                  *)
(***************************************************************************)
NL      == "\n"
PREFIX  == "data: "
DONE    == "[DONE]"
OPEN    == "<think>\n"
CLOSE   == "</think>\n\n"
TailD   == "}}]}"
TailN   == "}"
KeyR    == "\"reasoning_content\":"
KeyC    == "\"content\":"
NullTok == "null"
Comment == ": ping"
\* The two bytes of U+00E9 in UTF-8, the character they decode to, and the
\* replacement character Buffer.toString() yields for an incomplete sequence.
LEAD    == "0xC3"
CONT    == "0xA9"
EACUTE  == "U+00E9"
REPL    == "U+FFFD"

Ids == 1 .. (MaxLines + 1)
\* {"id":n,"choices":[{"delta":{      and      {"id":n
HeadD(n) == "{\"id\":" \o ToString(n) \o ",\"choices\":[{\"delta\":{"
HeadN(n) == "{\"id\":" \o ToString(n)
HeadDs == {HeadD(n) : n \in Ids}
HeadNs == {HeadN(n) : n \in Ids}
IdOfHead(h) == CHOOSE n \in Ids : h = HeadD(n) \/ h = HeadN(n)

Chars == {"a", "b", DONE, EACUTE, REPL}

(***************************************************************************)
(* JSON values of the two delta fields                                     *)
(***************************************************************************)
Absent   == [t |-> "absent", s |-> <<>>]
Null     == [t |-> "null", s |-> <<>>]
Str(s)   == [t |-> "str", s |-> s]
\* JavaScript truthiness of a field value: undefined, null and "" are falsy.
Truthy(v) == v.t = "str" /\ v.s # <<>>

\* A parsed event: its id, whether choices[0].delta exists, and the delta's
\* reasoning_content (r) and content (c).  isNull: the payload was JSON null.
NoData == [isNull |-> FALSE, id |-> 0, hasDelta |-> FALSE, r |-> Absent, c |-> Absent]
JsNull == [isNull |-> TRUE, id |-> 0, hasDelta |-> FALSE, r |-> Absent, c |-> Absent]


(***************************************************************************)
(* chunk.toString(): UTF-8 decoding of one chunk on its own.  A lead byte  *)
(* whose continuation byte is not in the same chunk, and a continuation    *)
(* byte with no lead byte before it, each decode to U+FFFD.                *)
(***************************************************************************)
RECURSIVE Decode(_)
Decode(bs) ==
    IF bs = <<>> THEN <<>>
    ELSE IF bs[1] = LEAD
         THEN IF Len(bs) >= 2 /\ bs[2] = CONT
              THEN <<EACUTE>> \o Decode(SubSeq(bs, 3, Len(bs)))
              ELSE <<REPL>> \o Decode(Tail(bs))
         ELSE IF bs[1] = CONT
              THEN <<REPL>> \o Decode(Tail(bs))
              ELSE <<bs[1]>> \o Decode(Tail(bs))

(***************************************************************************)
(* String.prototype.split('\n'): always at least one piece.                *)
(***************************************************************************)
RECURSIVE SplitNL(_)
SplitNL(s) ==
    IF \A k \in 1 .. Len(s) : s[k] # NL THEN <<s>>
    ELSE LET k == CHOOSE j \in 1 .. Len(s) :
                      s[j] = NL /\ \A m \in 1 .. (j - 1) : s[m] # NL
         IN  <<SubSeq(s, 1, k - 1)>> \o SplitNL(SubSeq(s, k + 1, Len(s)))

Front(q) == SubSeq(q, 1, Len(q) - 1)
Last(q)  == q[Len(q)]

\* line.startsWith('data: ') and line.includes('[DONE]')
StartsWithData(line) == Len(line) >= 1 /\ line[1] = PREFIX
IncludesDone(line)   == \E k \in 1 .. Len(line) : line[k] = DONE

(***************************************************************************)
(* JSON.parse of a payload (the line without its prefix)                   *)
(***************************************************************************)
IsKey(t) == t \in {KeyR, KeyC}

FieldsOK(f) ==
    /\ \A k \in 1 .. Len(f) : f[k] \in {KeyR, KeyC, NullTok} \cup Chars
    /\ f # <<>> => IsKey(f[1])
    /\ \A k \in 1 .. Len(f) :
          f[k] = NullTok =>
             /\ k > 1 /\ IsKey(f[k - 1])
             /\ (k = Len(f) \/ IsKey(f[k + 1]))

\* JSON.parse does not throw on p.
WellFormed(p) ==
    \/ p = <<NullTok>>
    \/ /\ Len(p) >= 2
       /\ p[1] \in HeadDs
       /\ p[Len(p)] = TailD
       /\ FieldsOK(SubSeq(p, 2, Len(p) - 1))
    \/ /\ Len(p) = 2
       /\ p[1] \in HeadNs
       /\ p[2] = TailN

\* The value of field key among the delta's fields f (a repeated key: the
\* last one wins, as in JSON.parse).
FieldVal(f, key) ==
    IF \A k \in 1 .. Len(f) : f[k] # key THEN Absent
    ELSE LET k == CHOOSE j \in 1 .. Len(f) :
                      f[j] = key /\ \A m \in (j + 1) .. Len(f) : f[m] # key
             e == IF \E j \in (k + 1) .. Len(f) : IsKey(f[j])
                  THEN CHOOSE j \in (k + 1) .. Len(f) :
                           IsKey(f[j]) /\ \A m \in (k + 1) .. (j - 1) : ~IsKey(f[m])
                  ELSE Len(f) + 1
             v == SubSeq(f, k + 1, e - 1)
         IN  IF v = <<NullTok>> THEN Null ELSE Str(v)

ParseJSON(p) ==
    IF p = <<NullTok>> THEN JsNull
    ELSE IF p[1] \in HeadDs
         THEN LET f == SubSeq(p, 2, Len(p) - 1)
              IN  [isNull |-> FALSE, id |-> IdOfHead(p[1]), hasDelta |-> TRUE,
                   r |-> FieldVal(f, KeyR), c |-> FieldVal(f, KeyC)]
         ELSE [isNull |-> FALSE, id |-> IdOfHead(p[1]), hasDelta |-> FALSE,
               r |-> Absent, c |-> Absent]

(***************************************************************************)
(* Frames written to the client by res.write                               *)
(***************************************************************************)
\* res.write(`data: ${JSON.stringify(data)}\n\n`)
JsonFrame(d)   == [kind |-> "json", data |-> d, line |-> <<>>]
\* res.write(line + '\n')
RawFrame(line) == [kind |-> "raw", data |-> NoData, line |-> line]

(***************************************************************************)
(* The SHOW_REASONING merge of one parsed event, with the request's        *)
(* reasoningStarted flag: the rewritten event and the new flag.            *)
(***************************************************************************)
\* The merge written with "else if": an event's content is looked at only
\* when it has no reasoning_content.
MergeElseIf(data, flag) ==
    IF Truthy(data.r)
    THEN [data |-> [data EXCEPT
                       !.c = Str(IF ~flag THEN <<OPEN>> \o data.r.s ELSE data.r.s),
                       !.r = Absent],
          flag |-> TRUE]
    ELSE IF Truthy(data.c)
         THEN [data |-> IF flag THEN [data EXCEPT !.c = Str(<<CLOSE>> \o data.c.s)]
                        ELSE data,
               flag |-> FALSE]
         ELSE [data |-> data, flag |-> flag]

\* The merge without the test of reasoningStarted: every reasoning fragment
\* gets an opening marker.
MergeReopens(data, flag) ==
    LET combined1 == IF Truthy(data.r) THEN <<OPEN>> \o data.r.s ELSE <<>>
        flag1     == IF Truthy(data.r) THEN TRUE ELSE flag
        combined2 == IF Truthy(data.c)
                     THEN IF flag1 THEN combined1 \o <<CLOSE>> \o data.c.s
                                   ELSE combined1 \o data.c.s
                     ELSE combined1
        flag2     == IF Truthy(data.c) THEN FALSE ELSE flag1
    IN  [data |-> IF combined2 # <<>>
                  THEN [data EXCEPT !.c = Str(combined2), !.r = Absent]
                  ELSE data,
         flag |-> flag2]

\* The branch taken when reasoning is not shown: content defaults to '' and
\* reasoning_content is deleted.
MergeHidden(data, flag) ==
    [data |-> [data EXCEPT !.c = IF Truthy(data.c) THEN data.c ELSE Str(<<>>),
                           !.r = Absent],
     flag |-> flag]

Merge(data, flag) ==
    LET reasoning == data.r
        content   == data.c
        combined1 == IF Truthy(reasoning)
                     THEN IF ~flag THEN <<OPEN>> \o reasoning.s ELSE reasoning.s
                     ELSE <<>>
        flag1     == IF Truthy(reasoning) THEN TRUE ELSE flag
        combined2 == IF Truthy(content)
                     THEN IF flag1 THEN combined1 \o <<CLOSE>> \o content.s
                                   ELSE combined1 \o content.s
                     ELSE combined1
        flag2     == IF Truthy(content) THEN FALSE ELSE flag1
    IN  [data |-> IF combined2 # <<>>
                  THEN [data EXCEPT !.c = Str(combined2), !.r = Absent]
                  ELSE data,
         flag |-> flag2]

(***************************************************************************)
(* The body of lines.forEach for one line: the frames it writes (none or   *)
(* one) and the new flag.                                                  *)
(***************************************************************************)
\* A catch block that also starts the transducer afresh.
OnParseErrorReset(line, flag) == [out |-> <<RawFrame(line)>>, flag |-> FALSE]

\* A catch block that ignores the line.
OnParseErrorIgnored(line, flag) == [out |-> <<>>, flag |-> flag]

\* catch (e) { res.write(line + '\n'); }
OnParseError(line, flag) == [out |-> <<RawFrame(line)>>, flag |-> flag]

HandleLine(line, flag) ==
    IF ~StartsWithData(line) THEN [out |-> <<>>, flag |-> flag]
    ELSE IF IncludesDone(line) THEN [out |-> <<RawFrame(line)>>, flag |-> flag]
    ELSE LET p == Tail(line)
         IN  IF ~WellFormed(p) \/ ParseJSON(p).isNull
             THEN OnParseError(line, flag)
             ELSE LET data == ParseJSON(p)
                  IN  IF data.hasDelta
                      THEN LET m == Merge(data, flag)
                           IN  [out |-> <<JsonFrame(m.data)>>, flag |-> m.flag]
                      ELSE [out |-> <<JsonFrame(data)>>, flag |-> flag]

\* The lines of a chunk handled last to first.
RECURSIVE ForEachReversed(_, _)
ForEachReversed(lines, flag) ==
    IF lines = <<>> THEN [out |-> <<>>, flag |-> flag]
    ELSE LET h == HandleLine(Last(lines), flag)
             t == ForEachReversed(Front(lines), h.flag)
         IN  [out |-> h.out \o t.out, flag |-> t.flag]

RECURSIVE ForEach(_, _)
ForEach(lines, flag) ==
    IF lines = <<>> THEN [out |-> <<>>, flag |-> flag]
    ELSE LET h == HandleLine(Head(lines), flag)
             t == ForEach(Tail(lines), h.flag)
         IN  [out |-> h.out \o t.out, flag |-> t.flag]

(***************************************************************************)
(* The 'data' handler on one chunk, as a function of the request's buffer  *)
(* and flag: buffer += chunk.toString(); split; pop; forEach.              *)
(***************************************************************************)
DataHandler(buf, flag, chunk) ==
    LET text  == buf \o Decode(chunk)
        parts == SplitNL(text)
        r     == ForEach(Front(parts), flag)
    IN  [buffer |-> Last(parts), flag |-> r.flag, out |-> r.out]

(***************************************************************************)
(* Upstream bodies: what the provider may send on a streaming response     *)
(***************************************************************************)
\* The kinds of line of a body.  "tail" is an answer event that the upstream
\* ends on without a newline; it can only come last.  "emptyR" and "emptyC"
\* are events whose reasoning_content, resp. content, is the empty string.
\* "quoted" is an answer event whose text is the sentinel's text.
Kinds == {"reason", "answer", "both", "keepalive", "bad", "done",
          "comment", "accent", "emptyR", "emptyC", "quoted"}
ConcKinds == {"reason", "answer"}

\* The n-th line of a body, without its newline.
LineOf(k, n) ==
    CASE k = "reason"    -> <<PREFIX, HeadD(n), KeyR, "a", TailD>>
      [] k = "answer"    -> <<PREFIX, HeadD(n), KeyC, "b", TailD>>
      [] k = "both"      -> <<PREFIX, HeadD(n), KeyR, "a", KeyC, "b", TailD>>
      [] k = "keepalive" -> <<PREFIX, HeadD(n), TailD>>
      [] k = "bad"       -> <<PREFIX, HeadD(n), KeyC, "b">>
      [] k = "done"      -> <<PREFIX, DONE>>
      [] k = "comment"   -> <<Comment>>
      [] k = "tail"      -> <<PREFIX, HeadD(n), KeyC, "b", TailD>>
      [] k = "accent"    -> <<PREFIX, HeadD(n), KeyC, LEAD, CONT, TailD>>
      [] k = "emptyR"    -> <<PREFIX, HeadD(n), KeyR, TailD>>
      [] k = "emptyC"    -> <<PREFIX, HeadD(n), KeyC, TailD>>
      [] k = "quoted"    -> <<PREFIX, HeadD(n), KeyC, DONE, TailD>>

\* The bytes of a body whose lines have the kinds ks, from line n on.
RECURSIVE BodyFrom(_, _)
BodyFrom(ks, n) ==
    IF n > Len(ks) THEN <<>>
    ELSE LineOf(ks[n], n) \o (IF ks[n] = "tail" THEN <<>> ELSE <<NL>>)
         \o BodyFrom(ks, n + 1)

KindSeqs(K, max) ==
    UNION {[1 .. n -> K] : n \in 0 .. max}
    \cup {ks \o <<"tail">> : ks \in UNION {[1 .. n -> K] : n \in 0 .. (max - 1)}}

Bodies     == {BodyFrom(ks, 1) : ks \in KindSeqs(Kinds, MaxLines)}
ConcBodies == {BodyFrom(ks, 1) : ks \in KindSeqs(ConcKinds, MaxConcLines)}

\* The bodies explored in a run with the requests L: a run of request 1
\* alone covers every kind of line; the runs that interleave two requests,
\* and the run of request 2 alone that is checked for progress, cover the
\* reasoning and answer events.
BodiesFor(L) == IF L = {1} THEN Bodies ELSE ConcBodies

(***************************************************************************)
(* Model names.  A name is a sequence of tokens, so that toLowerCase and   *)
(* includes are computed on it rather than looked up.                      *)
(***************************************************************************)
DeepseekV32 == <<"deepseek-ai", "/", "deepseek", "-v3.2">>
Terminus    == <<"deepseek-ai", "/", "deepseek", "-v3.1-terminus">>
QwenNext    == <<"qwen", "/", "qwen3-next-80b-a3b-thinking">>
Llama405b   == <<"meta", "/", "llama-3.1-405b-instruct">>

\* The entries of MODEL_MAPPING the model's names can hit.
MODEL_MAPPING ==
    (<<"deepseek">> :> DeepseekV32) @@ (<<"gpt-4">> :> DeepseekV32)
    @@ (<<"gpt-4o">> :> Terminus) @@ (Terminus :> QwenNext)

LowerTok(t) ==
    CASE t = "GPT-4" -> "gpt-4"
      [] t = "DeepSeek" -> "deepseek"
      [] OTHER -> t
ToLowerCase(name) == [k \in 1 .. Len(name) |-> LowerTok(name[k])]

\* name.includes('/') and name.includes('deepseek')
IncludesSlash(name)    == \E k \in 1 .. Len(name) : name[k] = "/"
IncludesDeepseek(name) == \E k \in 1 .. Len(name) : name[k] \in {"deepseek", "deepseek-ai"}

\* MODEL_MAPPING[key] is truthy
Mapped(key) == key \in DOMAIN MODEL_MAPPING

ResolveModel(model) ==
    LET modelKey == ToLowerCase(model)
        nim0     == IF Mapped(modelKey) THEN MODEL_MAPPING[modelKey]
                    ELSE IF Mapped(model) THEN MODEL_MAPPING[model]
                    ELSE model
    IN  IF ~Mapped(modelKey) /\ ~IncludesSlash(nim0)
        THEN IF IncludesDeepseek(modelKey) THEN DeepseekV32 ELSE Llama405b
        ELSE nim0

\* The model field of a request body: absent (undefined), or a name.
NoModel == [given |-> FALSE, name |-> <<>>]
ModelInputs ==
    {NoModel} \cup
    {[given |-> TRUE, name |-> n] :
        n \in {<<"GPT-4">>, <<"DeepSeek", "-r1">>, <<"my-model">>,
               <<"org", "/", "custom">>, <<"org", "/", "DeepSeek", "-r1">>}}

(***************************************************************************)
(* Errors and replies                                                      *)
(***************************************************************************)
\* The parsed body of a response that is not a completion (response.data of a
\* streaming call, of an error): it has no choices.
NoJson == [choices |-> FALSE, r |-> Absent, c |-> Absent]

\* What axios.post may reject with: an HTTP error status whose JSON body
\* carries error.message, one whose body does not, and a network error.
UpstreamErrors ==
    {[hasResponse |-> TRUE, status |-> 404, bodyMsg |-> "model not found", json |-> NoJson],
     [hasResponse |-> TRUE, status |-> 500, bodyMsg |-> "", json |-> NoJson],
     [hasResponse |-> FALSE, status |-> 0, bodyMsg |-> "", json |-> NoJson]}

\* error.message of the axios error.
AxiosMessage(e) ==
    IF e.hasResponse THEN "Request failed with status code " \o ToString(e.status)
    ELSE "connect ECONNREFUSED"

\* Complete upstream bodies of a non-streaming call: choices present or not,
\* and the first choice's message.
JsonBodies ==
    {[choices |-> TRUE, r |-> r, c |-> c] :
        r \in {Absent, Str(<<"a">>)}, c \in {Null, Str(<<"b">>)}}
    \cup {NoJson}

\* The catch block: res.status(...).json({error: {...}}).  asStream: the call
\* was made with responseType 'stream', so error.response.data is a stream
\* object, which has no error property.  sent: res.headersSent at that time.
CatchReply(e, message, asStream, sent) ==
    [kind |-> "error",
     status |-> IF e.hasResponse THEN e.status ELSE 500,
     message |-> IF e.hasResponse /\ ~asStream /\ e.bodyMsg # "" THEN e.bodyMsg
                 ELSE message,
     content |-> <<>>, model |-> <<>>, late |-> sent]

\* An exception thrown by the handler's own code (no error.response).
LocalError == [hasResponse |-> FALSE, status |-> 0, bodyMsg |-> "", json |-> NoJson]

\* The non-streaming branch: the content of the reply.
ReshapeContent(body) ==
    LET content == IF Truthy(body.c) THEN body.c.s ELSE <<>>
    IN  IF Truthy(body.r)
        THEN <<OPEN>> \o body.r.s \o <<NL, CLOSE>> \o content
        ELSE content

(***************************************************************************)
(* State                                                                   *)
(***************************************************************************)
Req == {1, 2}

VARIABLES
    live,              \* the requests that arrive in this run
    pc,                \* where each request's handler is
    model,             \* req.body.model
    stream,            \* req.body.stream
    nimModel,          \* the resolved model id
    upResp,            \* what the upstream answered (status, error text)
    upstream,          \* the bytes of the upstream's streaming body
    pos,               \* how many of them have been delivered in chunks
    flowing,           \* the upstream stream is in flowing mode
    buffer,            \* let buffer, by closure
    reasoningStarted,  \* let reasoningStarted, by closure
    writes,            \* the frames passed to res.write, in order
    flushed,           \* how many of them the client socket has taken
    replies,           \* the res.json calls, in order
    ended,             \* res.end() was called or res.json completed
    clientGone         \* the client has disconnected

vars == <<live, pc, model, stream, nimModel, upResp, upstream, pos, flowing, buffer,
          reasoningStarted, writes, flushed, replies, ended, clientGone>>

\* buffer and reasoningStarted declared once, at module level.
SlotShared(i) == 1

\* The closure a request's buffer and reasoningStarted live in: one per call
\* of the handler.
Slot(i) == i

NoResp == [hasResponse |-> FALSE, status |-> 0, bodyMsg |-> "", json |-> NoJson]

InitWith(L) ==
    /\ live = L
    /\ pc = [i \in Req |-> "idle"]
    /\ model = [i \in Req |-> NoModel]
    /\ stream = [i \in Req |-> FALSE]
    /\ nimModel = [i \in Req |-> <<>>]
    /\ upResp = [i \in Req |-> NoResp]
    /\ upstream = [i \in Req |-> <<>>]
    /\ pos = [i \in Req |-> 0]
    /\ flowing = [i \in Req |-> FALSE]
    /\ buffer = [i \in Req |-> <<>>]
    /\ reasoningStarted = [i \in Req |-> FALSE]
    /\ writes = [i \in Req |-> <<>>]
    /\ flushed = [i \in Req |-> 0]
    /\ replies = [i \in Req |-> <<>>]
    /\ ended = [i \in Req |-> FALSE]
    /\ clientGone = [i \in Req |-> FALSE]

Init     == InitWith({1})
InitConc == InitWith({1, 2})
InitLive == InitWith({2})

HeadersSent(i) == writes[i] # <<>> \/ replies[i] # <<>> \/ ended[i]
Pending(i)     == Len(writes[i]) - flushed[i]

(***************************************************************************)
(* Actions                                                                 *)
(***************************************************************************)
\* POST /v1/chat/completions arrives: the handler runs up to the await of
\* axios.post.  model.toLowerCase() throws when the body has no model.
Arrive(i) ==
    /\ i \in live
    /\ pc[i] = "idle"
    /\ \E m \in ModelInputs, st \in BOOLEAN :
          /\ model' = [model EXCEPT ![i] = m]
          /\ IF m.given
             THEN /\ pc' = [pc EXCEPT ![i] = "await"]
                  /\ stream' = [stream EXCEPT ![i] = st]
                  /\ nimModel' = [nimModel EXCEPT ![i] = ResolveModel(m.name)]
                  /\ UNCHANGED <<replies, ended>>
             ELSE /\ pc' = [pc EXCEPT ![i] = "failed"]
                  /\ stream' = [stream EXCEPT ![i] = st]
                  /\ replies' = [replies EXCEPT ![i] = Append(replies[i],
                        CatchReply(LocalError, "TypeError", FALSE, HeadersSent(i)))]
                  /\ ended' = [ended EXCEPT ![i] = TRUE]
                  /\ UNCHANGED nimModel
    /\ UNCHANGED <<live, upResp, upstream, pos, flowing, buffer,
                   reasoningStarted, writes, flushed, clientGone>>

\* axios.post rejects: the catch block replies.
UpstreamFail(i) ==
    /\ pc[i] = "await"
    /\ \E e \in UpstreamErrors :
          /\ upResp' = [upResp EXCEPT ![i] = e]
          /\ replies' = [replies EXCEPT ![i] = Append(replies[i],
                CatchReply(e, AxiosMessage(e), stream[i], HeadersSent(i)))]
    /\ pc' = [pc EXCEPT ![i] = "failed"]
    /\ ended' = [ended EXCEPT ![i] = TRUE]
    /\ UNCHANGED <<live, model, stream, nimModel, upstream, pos, flowing, buffer,
                   reasoningStarted, writes, flushed, clientGone>>

\* axios.post resolves for a non-streaming request: the reshape and res.json.
\* response.data.choices[0] throws when the body has no choices.
Reshape(i) ==
    /\ pc[i] = "await"
    /\ ~stream[i]
    /\ \E body \in JsonBodies :
          /\ IF body.choices
             THEN /\ replies' = [replies EXCEPT ![i] = Append(replies[i],
                        [kind |-> "completion", status |-> 200, message |-> "",
                         content |-> ReshapeContent(body), model |-> nimModel[i],
                         late |-> HeadersSent(i)])]
                  /\ pc' = [pc EXCEPT ![i] = "replied"]
             ELSE /\ replies' = [replies EXCEPT ![i] = Append(replies[i],
                        CatchReply(LocalError, "TypeError", FALSE, HeadersSent(i)))]
                  /\ pc' = [pc EXCEPT ![i] = "failed"]
          /\ upResp' = [upResp EXCEPT ![i] =
                [hasResponse |-> TRUE, status |-> 200, bodyMsg |-> "", json |-> body]]
    /\ ended' = [ended EXCEPT ![i] = TRUE]
    /\ UNCHANGED <<live, model, stream, nimModel, upstream, pos, flowing, buffer,
                   reasoningStarted, writes, flushed, clientGone>>

\* axios.post resolves for a streaming request: the headers are set, buffer
\* and reasoningStarted are created and the three listeners are attached,
\* which puts the upstream stream in flowing mode.  model and nimModel are
\* not read again on this path.
StartStream(i) ==
    /\ pc[i] = "await"
    /\ stream[i]
    /\ \E body \in BodiesFor(live) :
          upstream' = [upstream EXCEPT ![i] = body]
    /\ upResp' = [upResp EXCEPT ![i] =
          [hasResponse |-> TRUE, status |-> 200, bodyMsg |-> "", json |-> NoJson]]
    /\ pos' = [pos EXCEPT ![i] = 0]
    /\ buffer' = [buffer EXCEPT ![Slot(i)] = <<>>]
    /\ reasoningStarted' = [reasoningStarted EXCEPT ![Slot(i)] = FALSE]
    /\ flowing' = [flowing EXCEPT ![i] = TRUE]
    /\ nimModel' = [nimModel EXCEPT ![i] = <<>>]
    /\ model' = [model EXCEPT ![i] = NoModel]
    /\ pc' = [pc EXCEPT ![i] = "streaming"]
    /\ UNCHANGED <<live, stream, writes, flushed, replies, ended, clientGone>>

\* The sizes of the next chunk when rest bytes are still to come: up to
\* MaxChunk bytes, or all of them.
ChunkSizes(rest) == {n \in 1 .. rest : n <= MaxChunk \/ n = rest}

\* The 'data' listener runs on the next chunk.
OnData(i) ==
    /\ pc[i] = "streaming"
    /\ flowing[i]
    /\ pos[i] < Len(upstream[i])
    /\ \E n \in ChunkSizes(Len(upstream[i]) - pos[i]) :
          LET chunk == SubSeq(upstream[i], pos[i] + 1, pos[i] + n)
              r     == DataHandler(buffer[Slot(i)], reasoningStarted[Slot(i)], chunk)
          IN  /\ pos' = [pos EXCEPT ![i] = pos[i] + n]
              /\ buffer' = [buffer EXCEPT ![Slot(i)] = r.buffer]
              /\ reasoningStarted' = [reasoningStarted EXCEPT ![Slot(i)] = r.flag]
              /\ writes' = [writes EXCEPT ![i] = writes[i] \o r.out]
    /\ UNCHANGED <<live, pc, model, stream, nimModel, upResp, upstream, flowing,
                   flushed, replies, ended, clientGone>>

\* An 'end' listener that first writes what is left in the buffer.
OnEndFlushes(i) ==
    /\ pc[i] = "streaming"
    /\ pos[i] = Len(upstream[i])
    /\ writes' = [writes EXCEPT ![i] =
          writes[i] \o (IF buffer[Slot(i)] # <<>>
                        THEN <<RawFrame(buffer[Slot(i)])>> ELSE <<>>)]
    /\ pc' = [pc EXCEPT ![i] = "closed"]
    /\ ended' = [ended EXCEPT ![i] = TRUE]
    /\ flowing' = [flowing EXCEPT ![i] = FALSE]
    /\ UNCHANGED <<live, model, stream, nimModel, upResp, upstream, pos, buffer,
                   reasoningStarted, flushed, replies, clientGone>>

\* The 'end' listener: res.end().
OnEnd(i) ==
    /\ pc[i] = "streaming"
    /\ pos[i] = Len(upstream[i])
    /\ pc' = [pc EXCEPT ![i] = "closed"]
    /\ ended' = [ended EXCEPT ![i] = TRUE]
    /\ flowing' = [flowing EXCEPT ![i] = FALSE]
    /\ UNCHANGED <<live, model, stream, nimModel, upResp, upstream, pos, buffer,
                   reasoningStarted, writes, flushed, replies, clientGone>>

\* An 'error' listener that answers with the error envelope.
OnErrorReplies(i) ==
    /\ pc[i] = "streaming"
    /\ pos[i] < Len(upstream[i])
    /\ pc' = [pc EXCEPT ![i] = "closed"]
    /\ replies' = [replies EXCEPT ![i] = Append(replies[i],
          CatchReply(LocalError, "stream error", FALSE, HeadersSent(i)))]
    /\ ended' = [ended EXCEPT ![i] = TRUE]
    /\ flowing' = [flowing EXCEPT ![i] = FALSE]
    /\ UNCHANGED <<live, model, stream, nimModel, upResp, upstream, pos, buffer,
                   reasoningStarted, writes, flushed, clientGone>>

\* An 'error' listener after which the upstream goes on emitting chunks.
OnErrorStillFlowing(i) ==
    /\ pc[i] = "streaming"
    /\ pos[i] < Len(upstream[i])
    /\ ~ended[i]
    /\ ended' = [ended EXCEPT ![i] = TRUE]
    /\ UNCHANGED <<live, pc, model, stream, nimModel, upResp, upstream, pos, flowing,
                   buffer, reasoningStarted, writes, flushed, replies, clientGone>>

\* The 'error' listener: the upstream stream fails part-way; res.end().
OnError(i) ==
    /\ pc[i] = "streaming"
    /\ pos[i] < Len(upstream[i])
    /\ pc' = [pc EXCEPT ![i] = "closed"]
    /\ ended' = [ended EXCEPT ![i] = TRUE]
    /\ flowing' = [flowing EXCEPT ![i] = FALSE]
    /\ UNCHANGED <<live, model, stream, nimModel, upResp, upstream, pos, buffer,
                   reasoningStarted, writes, flushed, replies, clientGone>>

\* The client's socket takes the frames buffered for it.
ClientDrain(i) ==
    /\ ~clientGone[i]
    /\ Pending(i) > 0
    /\ flushed' = [flushed EXCEPT ![i] = Len(writes[i])]
    /\ UNCHANGED <<live, pc, model, stream, nimModel, upResp, upstream, pos, flowing,
                   buffer, reasoningStarted, writes, replies, ended, clientGone>>

\* The client disconnects while its request is in flight.  The handler
\* registers no listener for that (no req.on('close'), no res.on('close')).
ClientDisconnect(i) ==
    /\ pc[i] \in {"await", "streaming"}
    /\ ~clientGone[i]
    /\ clientGone' = [clientGone EXCEPT ![i] = TRUE]
    /\ UNCHANGED <<live, pc, model, stream, nimModel, upResp, upstream, pos, flowing,
                   buffer, reasoningStarted, writes, flushed, replies, ended>>

Next ==
    \E i \in Req :
        \/ Arrive(i)
        \/ UpstreamFail(i)
        \/ Reshape(i)
        \/ StartStream(i)
        \/ OnData(i)
        \/ OnEnd(i)
        \/ OnError(i)
        \/ ClientDrain(i)
        \/ ClientDisconnect(i)

\* Two requests in flight at once: every step of the handler and of the
\* upstream, for either request, in any interleaving.
NextConc ==
    \E i \in Req :
        \/ Arrive(i)
        \/ UpstreamFail(i)
        \/ Reshape(i)
        \/ StartStream(i)
        \/ OnData(i)
        \/ OnEnd(i)
        \/ OnError(i)

Spec     == Init /\ [][Next]_vars
\* What the upstream stream does in a 'data' step and in an 'end' step: it
\* hands over a chunk; having handed over all of them, it ends.  A step of
\* NextConc that changes pos this way is a step of OnData(i), and one that
\* changes pc this way is a step of OnEnd(i).
UpstreamDelivers(i) ==
    /\ pc[i] = "streaming"
    /\ flowing[i]
    /\ \E n \in ChunkSizes(Len(upstream[i]) - pos[i]) :
          pos' = [pos EXCEPT ![i] = pos[i] + n]

UpstreamEnds(i) ==
    /\ pc[i] = "streaming"
    /\ pos[i] = Len(upstream[i])
    /\ pc' = [pc EXCEPT ![i] = "closed"]

\* The upstream terminates: a flowing stream goes on emitting the chunks it
\* has, then 'end'.  (An 'error' may come instead; nothing forces one.)
SpecLive ==
    /\ InitLive /\ [][NextConc]_vars
    /\ \A i \in Req : WF_pos(UpstreamDelivers(i)) /\ WF_pc(UpstreamEnds(i))
SpecConc == InitConc /\ [][NextConc]_vars

(***************************************************************************)
(* What the client sees                                                    *)
(***************************************************************************)
\* The text of a frame's delta.content.
TextOf(f) == IF f.kind = "json" /\ f.data.c.t = "str" THEN f.data.c.s ELSE <<>>

\* How many times the marker tok occurs in the frames ws.
Marks(ws, tok) ==
    Cardinality(UNION {{<<k, j>> : j \in {m \in 1 .. Len(TextOf(ws[k])) :
                                            TextOf(ws[k])[m] = tok}} :
                       k \in 1 .. Len(ws)})

\* The bytes delivered so far, and the complete lines among them.
Delivered(i)     == SubSeq(upstream[i], 1, pos[i])
CompleteLines(b) == Front(SplitNL(b))

\* The event id a line carries (0: none), and the one a frame carries.
LineTag(line) ==
    IF Len(line) >= 2 /\ line[2] \in HeadDs \cup HeadNs THEN IdOfHead(line[2]) ELSE 0
FrameTag(f) == IF f.kind = "json" THEN f.data.id ELSE LineTag(f.line)

\* A prefixed line, not the sentinel, whose payload is not JSON.
IsMalformed(line) ==
    StartsWithData(line) /\ ~IncludesDone(line) /\ ~WellFormed(Tail(line))
NotMalformed(line) == ~IsMalformed(line)
IsEventFrame(f)    == ~(f.kind = "raw" /\ IsMalformed(f.line))

\* The chunk a step delivers and the frames it writes.
ChunkOf(i) == SubSeq(upstream[i], pos[i] + 1, pos'[i])
Added(i)   == SubSeq(writes'[i], Len(writes[i]) + 1, Len(writes'[i]))

(***************************************************************************)
(* C1.  By the time the client stream is closed, as many opening markers   *)
(* as closing markers have been written (a stream that ends or errors      *)
(* inside a reasoning block gets a closing marker before res.end()).       *)
(***************************************************************************)
C1_MarkersBalancedAtClose ==
    \A i \in Req :
        pc[i] = "closed" => Marks(writes[i], OPEN) = Marks(writes[i], CLOSE)

(***************************************************************************)
(* C2.  Chunk-boundary independence: once all bytes of a body have been    *)
(* delivered, in whatever chunks, the frames written, the flag and the     *)
(* residual buffer are those of the body delivered as one chunk.           *)
(***************************************************************************)
C2_ChunkBoundaryIndependence ==
    \A i \in Req :
        (pc[i] = "streaming" /\ pos[i] = Len(upstream[i])) =>
            LET one == DataHandler(<<>>, FALSE, upstream[i])
            IN  /\ writes[i] = one.out
                /\ reasoningStarted[Slot(i)] = one.flag
                /\ buffer[Slot(i)] = one.buffer

(***************************************************************************)
(* C3.  An event with a reasoning fragment and an answer fragment that     *)
(* arrives in Answering state is written as one frame whose text is        *)
(* opening marker, reasoning, closing marker, answer, and leaves the       *)
(* transducer in Answering state.                                          *)
(***************************************************************************)
\* ev, parsed from a line handled with the flag unset, yields added and flagAfter.
C3_Event(ev, added, flagAfter) ==
    (ev.hasDelta /\ Truthy(ev.r) /\ Truthy(ev.c))
    => /\ added = << JsonFrame([ev EXCEPT
                        !.c = Str(<<OPEN>> \o ev.r.s \o <<CLOSE>> \o ev.c.s),
                        !.r = Absent]) >>
       /\ ~flagAfter

C3_Line(line, added, flagAfter) ==
    (StartsWithData(line) /\ ~IncludesDone(line) /\ WellFormed(Tail(line)))
    => C3_Event(ParseJSON(Tail(line)), added, flagAfter)

\* The chunk completes exactly one line.
C3_Chunk(chunk, buf, added, flagAfter) ==
    (Last(chunk) = NL /\ \A k \in 1 .. (Len(chunk) - 1) : chunk[k] # NL)
    => C3_Line(buf \o Decode(Front(chunk)), added, flagAfter)

C3_Step(i) ==
    (pc[i] = "streaming" /\ pos'[i] > pos[i] /\ ~reasoningStarted[Slot(i)])
    => C3_Chunk(ChunkOf(i), buffer[Slot(i)], Added(i), reasoningStarted'[Slot(i)])

C4_Lines(lines, flag, added, flagAfter) ==
    (\E k \in 1 .. Len(lines) : IsMalformed(lines[k]))
    => LET ref == ForEach(SelectSeq(lines, NotMalformed), flag)
       IN  /\ SelectSeq(added, IsEventFrame) = ref.out
           /\ flagAfter = ref.flag

C4_Step(i) ==
    (pc[i] = "streaming" /\ pos'[i] > pos[i])
    => C4_Lines(CompleteLines(buffer[Slot(i)] \o Decode(ChunkOf(i))),
                reasoningStarted[Slot(i)], Added(i), reasoningStarted'[Slot(i)])

C4_MalformedLineIsolated == [][\A i \in Req : C4_Step(i)]_vars

\* reasoning event, malformed line, answer event: the block opened before
\* the malformed line is closed after it.
C4_Witness ==
    \E i \in Req :
        /\ Len(writes[i]) = 3
        /\ TextOf(writes[i][1]) = <<OPEN, "a">>
        /\ writes[i][2].kind = "raw" /\ IsMalformed(writes[i][2].line)
        /\ TextOf(writes[i][3]) = <<CLOSE, "b">>
        /\ ~reasoningStarted[Slot(i)]

(***************************************************************************)
(* C5.  An upstream 404 with a JSON error body is answered with status 404 *)
(* and the upstream's error text, for stream: true and for stream: false.  *)
(***************************************************************************)
C5_Upstream404Normalized ==
    \A i \in Req :
        (/\ pc[i] = "failed"
         /\ upResp[i].hasResponse /\ upResp[i].status = 404
         /\ upResp[i].bodyMsg # "")
        => /\ Len(replies[i]) = 1
           /\ replies[i][1].kind = "error"
           /\ replies[i][1].status = 404
           /\ replies[i][1].message = upResp[i].bodyMsg

(***************************************************************************)
(* C6.  A request-level error is answered with exactly one error envelope, *)
(* and no envelope is ever sent once headers or frames have gone out: a    *)
(* stream that fails part-way is only ended.                               *)
(***************************************************************************)
C6_ErrorEnvelopeOnceAndFirst ==
    \A i \in Req :
        /\ Len(replies[i]) <= 1
        /\ \A k \in 1 .. Len(replies[i]) :
              replies[i][k].kind = "error" =>
                  ~replies[i][k].late /\ writes[i] = <<>>
        /\ pc[i] = "failed" =>
              Len(replies[i]) = 1 /\ replies[i][1].kind = "error"
        /\ pc[i] = "closed" => replies[i] = <<>> /\ ended[i]

\* The upstream failed after frames had been written.
C6_Witness ==
    \E i \in Req :
        /\ pc[i] = "closed"
        /\ pos[i] < Len(upstream[i])
        /\ writes[i] # <<>>

(***************************************************************************)
(* C7.  Frames are written in the order of the upstream's event lines, one *)
(* frame per complete prefixed line: the k-th frame carries the id of the  *)
(* k-th such line delivered.                                               *)
(***************************************************************************)
C7_OrderPreserved ==
    \A i \in Req :
        pc[i] \in {"streaming", "closed"} =>
            LET evs == SelectSeq(CompleteLines(Delivered(i)), StartsWithData)
            IN  /\ Len(writes[i]) = Len(evs)
                /\ \A k \in 1 .. Len(evs) : FrameTag(writes[i][k]) = LineTag(evs[k])

\* Three event lines have been delivered and three frames written.
C7_Witness ==
    \E i \in Req :
        /\ Len(writes[i]) = 3
        /\ FrameTag(writes[i][1]) = 1
        /\ FrameTag(writes[i][2]) = 2
        /\ FrameTag(writes[i][3]) = 3

(***************************************************************************)
(* C8.  Once the client has disconnected, no further upstream chunk is     *)
(* consumed and nothing more is written for that request.                  *)
(***************************************************************************)
C8_NoConsumptionAfterDisconnect ==
    [][\A i \in Req :
          clientGone[i] => pos'[i] = pos[i] /\ writes'[i] = writes[i]]_vars

(***************************************************************************)
(* C9.  Backpressure: while the frames buffered for the client are at the  *)
(* high-water mark, the upstream stream is not flowing.                    *)
(***************************************************************************)
C9_BackpressureHonored ==
    \A i \in Req : Pending(i) >= HighWaterMark => ~flowing[i]

(***************************************************************************)
(* C10.  With two requests streaming at once, in any interleaving of their *)
(* chunks, each request's frames, flag and buffer are those its own bytes  *)
(* yield when handled alone.                                               *)
(***************************************************************************)
C10_RequestsIsolated ==
    \A i \in Req :
        pc[i] \in {"streaming", "closed"} =>
            LET alone == DataHandler(<<>>, FALSE, Delivered(i))
            IN  /\ writes[i] = alone.out
                /\ pc[i] = "streaming" =>
                      /\ buffer[Slot(i)] = alone.buffer
                      /\ reasoningStarted[Slot(i)] = alone.flag

\* Both requests are in the middle of a line, one inside a reasoning block
\* and the other not.
C10_Witness ==
    /\ pc[1] = "streaming" /\ pc[2] = "streaming"
    /\ buffer[Slot(1)] # <<>> /\ buffer[Slot(2)] # <<>>
    /\ reasoningStarted[Slot(1)] /\ ~reasoningStarted[Slot(2)]
    /\ writes[2] # <<>>

(***************************************************************************)
(* C11.  No frame written for a parsed event carries the reasoning field:  *)
(* every JSON frame's delta has no reasoning_content, whatever the event.  *)
(***************************************************************************)
C11_NoRawReasoningField ==
    \A i \in Req : \A k \in 1 .. Len(writes[i]) :
        writes[i][k].kind = "json" => writes[i][k].data.r = Absent

(***************************************************************************)
(* C12.  The non-streaming reshape of a body with reasoning r and content  *)
(* c replies with the text the streaming transducer writes for a reasoning *)
(* event r followed by an answer event c: the same markers on both paths.  *)
(***************************************************************************)
\* The texts of the frames ws, concatenated.
RECURSIVE TextsOf(_)
TextsOf(ws) == IF ws = <<>> THEN <<>> ELSE TextOf(Head(ws)) \o TextsOf(Tail(ws))

\* What the streaming path writes for a reasoning event r, then an answer
\* event c.
StreamedText(r, c) ==
    TextsOf(ForEach(<< <<PREFIX, HeadD(1), KeyR>> \o r \o <<TailD>>,
                       <<PREFIX, HeadD(2), KeyC>> \o c \o <<TailD>> >>, FALSE).out)

C12_ReshapeMatchesStreaming ==
    \A i \in Req :
        (/\ pc[i] = "replied"
         /\ Truthy(upResp[i].json.r) /\ Truthy(upResp[i].json.c))
        => /\ Len(replies[i]) = 1
           /\ replies[i][1].kind = "completion"
           /\ replies[i][1].content =
                  StreamedText(upResp[i].json.r.s, upResp[i].json.c.s)

(***************************************************************************)
(* C13.  A model name with no case-insensitive match in MODEL_MAPPING is   *)
(* resolved to the default reasoning model when it contains "deepseek" in  *)
(* any case, and is sent to the upstream unchanged otherwise.              *)
(***************************************************************************)
C13_ModelResolution ==
    \A i \in Req :
        (/\ pc[i] = "await"
         /\ model[i].given
         /\ ~Mapped(ToLowerCase(model[i].name)))
        => nimModel[i] = IF IncludesDeepseek(ToLowerCase(model[i].name))
                         THEN DeepseekV32
                         ELSE model[i].name

(***************************************************************************)
(* C14.  The sentinel line is written as it came and ends the processing   *)
(* of its stream: the lines after it, in the same chunk or in a later one, *)
(* write nothing and leave the flag as it was.                             *)
(***************************************************************************)
Sentinel == <<PREFIX, DONE>>
SentinelSeen(i) == \E k \in 1 .. Len(writes[i]) : writes[i][k] = RawFrame(Sentinel)

\* A chunk that completes the sentinel line is handled up to that line.
C14_Lines(lines, flag, added, flagAfter) ==
    (\E k \in 1 .. Len(lines) : lines[k] = Sentinel)
    => LET k0  == CHOOSE k \in 1 .. Len(lines) :
                     lines[k] = Sentinel /\ \A m \in 1 .. (k - 1) : lines[m] # Sentinel
           ref == ForEach(SubSeq(lines, 1, k0), flag)
       IN  /\ added = ref.out
           /\ added # <<>> /\ Last(added) = RawFrame(Sentinel)
           /\ flagAfter = ref.flag

C14_Step(i) ==
    /\ SentinelSeen(i) =>
          writes'[i] = writes[i] /\ reasoningStarted'[Slot(i)] = reasoningStarted[Slot(i)]
    /\ (pc[i] = "streaming" /\ pos'[i] > pos[i] /\ ~SentinelSeen(i))
       => C14_Lines(CompleteLines(buffer[Slot(i)] \o Decode(ChunkOf(i))),
                    reasoningStarted[Slot(i)], Added(i), reasoningStarted'[Slot(i)])

C14_StopsAtSentinel == [][\A i \in Req : C14_Step(i)]_vars

(***************************************************************************)
(* C15.  Presence, not truthiness, triggers the transitions: an event      *)
(* whose content is the empty string, arriving inside a reasoning block,   *)
(* is written with the closing marker and ends the block; an event whose   *)
(* reasoning_content is the empty string, arriving outside a block, is     *)
(* written with the opening marker and starts one.                         *)
(***************************************************************************)
C15_Event(ev, flag, added, flagAfter) ==
    /\ (ev.hasDelta /\ ev.r = Absent /\ ev.c = Str(<<>>) /\ flag)
       => /\ Len(added) = 1
          /\ TextOf(added[1]) = <<CLOSE>>
          /\ ~flagAfter
    /\ (ev.hasDelta /\ ev.r = Str(<<>>) /\ ev.c = Absent /\ ~flag)
       => /\ Len(added) = 1
          /\ TextOf(added[1]) = <<OPEN>>
          /\ flagAfter

C15_Line(line, flag, added, flagAfter) ==
    (StartsWithData(line) /\ ~IncludesDone(line) /\ WellFormed(Tail(line)))
    => C15_Event(ParseJSON(Tail(line)), flag, added, flagAfter)

\* The chunk completes exactly one line.
C15_Chunk(chunk, buf, flag, added, flagAfter) ==
    (Last(chunk) = NL /\ \A k \in 1 .. (Len(chunk) - 1) : chunk[k] # NL)
    => C15_Line(buf \o Decode(Front(chunk)), flag, added, flagAfter)

C15_Step(i) ==
    (pc[i] = "streaming" /\ pos'[i] > pos[i])
    => C15_Chunk(ChunkOf(i), buffer[Slot(i)], reasoningStarted[Slot(i)],
                 Added(i), reasoningStarted'[Slot(i)])

C15_PresenceTriggers == [][\A i \in Req : C15_Step(i)]_vars

(***************************************************************************)
(* C16.  Every complete, non-blank line is answered by a frame, in order,  *)
(* and the frame of a line without the "data: " prefix is that line as it  *)
(* came.                                                                   *)
(***************************************************************************)
NonBlank(line) == line # <<>>

C16_UnprefixedForwarded ==
    \A i \in Req :
        pc[i] \in {"streaming", "closed"} =>
            LET ls == SelectSeq(CompleteLines(Delivered(i)), NonBlank)
            IN  /\ Len(writes[i]) = Len(ls)
                /\ \A k \in 1 .. Len(ls) :
                      ~StartsWithData(ls[k]) => writes[i][k] = RawFrame(ls[k])

(***************************************************************************)
(* C17.  The markers written so far alternate, opening marker first; there *)
(* is one more opening than closing marker exactly when reasoningStarted   *)
(* is set, and as many of each otherwise.                                  *)
(***************************************************************************)
IsMarker(t) == t \in {OPEN, CLOSE}
MarkersOf(ws) == SelectSeq(TextsOf(ws), IsMarker)

C17_MarkersAlternate ==
    \A i \in Req :
        pc[i] \in {"streaming", "closed"} =>
            LET ms == MarkersOf(writes[i])
            IN  /\ \A k \in 1 .. Len(ms) : ms[k] = IF k % 2 = 1 THEN OPEN ELSE CLOSE
                /\ Marks(writes[i], OPEN) - Marks(writes[i], CLOSE) \in {0, 1}
                /\ reasoningStarted[Slot(i)]
                      <=> Marks(writes[i], OPEN) - Marks(writes[i], CLOSE) = 1

\* A block was opened, closed, and a second one is open.
C17_Witness ==
    \E i \in Req :
        /\ pc[i] = "streaming"
        /\ MarkersOf(writes[i]) = <<OPEN, CLOSE, OPEN>>
        /\ reasoningStarted[Slot(i)]

(***************************************************************************)
(* C18.  A prefixed line that is not JSON is written as the raw line, once *)
(* and at its place among the frames of the chunk's prefixed lines; it     *)
(* leaves the flag and the buffer as they were, and the stream goes on.    *)
(***************************************************************************)
C18_Lines(text, flag, added, flagAfter, bufAfter) ==
    LET lines == CompleteLines(text)
        evs   == SelectSeq(lines, StartsWithData)
    IN  (\E k \in 1 .. Len(lines) : IsMalformed(lines[k]))
        => /\ Len(added) = Len(evs)
           /\ \A k \in 1 .. Len(evs) :
                 IF IsMalformed(evs[k])
                 THEN added[k] = RawFrame(evs[k])
                 ELSE ~(added[k].kind = "raw" /\ IsMalformed(added[k].line))
           /\ (\A k \in 1 .. Len(evs) : IsMalformed(evs[k])) => flagAfter = flag
           /\ bufAfter = Last(SplitNL(text))

C18_Step(i) ==
    (pc[i] = "streaming" /\ pos'[i] > pos[i])
    => /\ C18_Lines(buffer[Slot(i)] \o Decode(ChunkOf(i)), reasoningStarted[Slot(i)],
                    Added(i), reasoningStarted'[Slot(i)], buffer'[Slot(i)])
       /\ pc'[i] = "streaming" /\ ~ended'[i]

C19_Event(ev, flag, added, flagAfter) ==
    (ev.r = Absent /\ ev.c = Absent)
    => /\ added = <<JsonFrame(ev)>>
       /\ flagAfter = flag

C19_Line(line, flag, added, flagAfter) ==
    (StartsWithData(line) /\ ~IncludesDone(line) /\ WellFormed(Tail(line)))
    => C19_Event(ParseJSON(Tail(line)), flag, added, flagAfter)

\* The chunk completes exactly one line.
C19_Chunk(chunk, buf, flag, added, flagAfter) ==
    (Last(chunk) = NL /\ \A k \in 1 .. (Len(chunk) - 1) : chunk[k] # NL)
    => C19_Line(buf \o Decode(Front(chunk)), flag, added, flagAfter)

C19_Step(i) ==
    (pc[i] = "streaming" /\ pos'[i] > pos[i])
    => C19_Chunk(ChunkOf(i), buffer[Slot(i)], reasoningStarted[Slot(i)],
                 Added(i), reasoningStarted'[Slot(i)])

C19_KeepAliveUnchanged == [][\A i \in Req : C19_Step(i)]_vars

\* A keep-alive between two reasoning events: the block was opened once and
\* is still open.
C19_Witness ==
    \E i \in Req :
        /\ Len(writes[i]) = 3
        /\ TextOf(writes[i][1]) = <<OPEN, "a">>
        /\ writes[i][2] = JsonFrame([NoData EXCEPT !.id = 2, !.hasDelta = TRUE])
        /\ TextOf(writes[i][3]) = <<"a">>
        /\ reasoningStarted[Slot(i)]

(***************************************************************************)
(* C20.  Once the response has been ended nothing more is written to it    *)
(* and it stays ended, and every stream whose upstream terminates is       *)
(* closed in the end.                                                      *)
(***************************************************************************)
C20_NoWriteAfterEnd ==
    [][\A i \in Req : ended[i] => writes'[i] = writes[i] /\ ended'[i]]_vars

C20_ClosedAfterUpstreamEnds ==
    /\ C20_NoWriteAfterEnd
    /\ \A i \in Req : pc[i] = "streaming" ~> (pc[i] = "closed" /\ ended[i])

\* The upstream ended after all its chunks, and the response is ended with
\* frames written.
C20_Witness ==
    \E i \in Req :
        /\ pc[i] = "closed"
        /\ ended[i]
        /\ pos[i] = Len(upstream[i])
        /\ Len(writes[i]) >= 2

(***************************************************************************)
(* C21.  Model resolution raises no local error: whatever the model field  *)
(* of the request, the handler resolves an identifier and goes on to the   *)
(* upstream call.                                                          *)
(***************************************************************************)
C21_ResolutionNeverRaises ==
    [][\A i \in Req :
          (pc[i] = "idle" /\ pc'[i] # "idle")
          => /\ pc'[i] = "await"
             /\ nimModel'[i] # <<>>
             /\ replies'[i] = <<>>]_vars

(***************************************************************************)
(* C22.  Only the sentinel line is terminal: a line whose payload is a     *)
(* JSON event is transduced (merged, flag updated, reasoning field         *)
(* removed) even when a fragment's text contains the sentinel's text.      *)
(***************************************************************************)
C22_Event(ev, flag, added, flagAfter) ==
    ev.hasDelta
    => /\ added = <<JsonFrame(Merge(ev, flag).data)>>
       /\ flagAfter = Merge(ev, flag).flag

C22_Line(line, flag, added, flagAfter) ==
    (StartsWithData(line) /\ WellFormed(Tail(line)) /\ ~ParseJSON(Tail(line)).isNull)
    => C22_Event(ParseJSON(Tail(line)), flag, added, flagAfter)

\* The chunk completes exactly one line.
C22_Chunk(chunk, buf, flag, added, flagAfter) ==
    (Last(chunk) = NL /\ \A k \in 1 .. (Len(chunk) - 1) : chunk[k] # NL)
    => C22_Line(buf \o Decode(Front(chunk)), flag, added, flagAfter)

C22_Step(i) ==
    (pc[i] = "streaming" /\ pos'[i] > pos[i])
    => C22_Chunk(ChunkOf(i), buffer[Slot(i)], reasoningStarted[Slot(i)],
                 Added(i), reasoningStarted'[Slot(i)])

C22_OnlySentinelTerminal == [][\A i \in Req : C22_Step(i)]_vars

(***************************************************************************)
(* C23.  Frames are written for complete lines only: a 'data' step writes  *)
(* the frames of the lines its chunk completes and keeps the rest in the   *)
(* buffer, and the step that closes the stream writes nothing, so a last   *)
(* line without its newline never reaches the client.                      *)
(***************************************************************************)
C23_Data(text, flag, added, bufAfter) ==
    /\ added = ForEach(CompleteLines(text), flag).out
    /\ bufAfter = Last(SplitNL(text))

C23_Step(i) ==
    /\ (pc[i] = "streaming" /\ pos'[i] > pos[i])
       => C23_Data(buffer[Slot(i)] \o Decode(ChunkOf(i)), reasoningStarted[Slot(i)],
                   Added(i), buffer'[Slot(i)])
    /\ (pc[i] = "streaming" /\ pc'[i] = "closed")
       => writes'[i] = writes[i] /\ buffer'[Slot(i)] = buffer[Slot(i)]

C23_OnlyCompleteLinesWritten == [][\A i \in Req : C23_Step(i)]_vars

\* The upstream ended on an answer event without its newline: the stream is
\* closed, the event is still in the buffer and was written nowhere.
C23_Witness ==
    \E i \in Req :
        /\ pc[i] = "closed"
        /\ pos[i] = Len(upstream[i])
        /\ StartsWithData(buffer[Slot(i)])
        /\ Last(buffer[Slot(i)]) = TailD
        /\ writes[i] # <<>>
        /\ \A k \in 1 .. Len(writes[i]) :
              FrameTag(writes[i][k]) # LineTag(buffer[Slot(i)])

============================================================================
